---- MODULE Spec2Model ----
(***************************************************************************)
(* A model of main.py: the console schedule editor (manage_schedule and    *)
(* its helpers), the browser login handshake (ensure_logged_in) and the    *)
(* looping per-message delivery tasks (send_messages), run by main under   *)
(* asyncio.  An interrupt (Ctrl+C) is delivered by asyncio.run as a        *)
(* cancellation of the main task at the await it is suspended on.  Time    *)
(* is a clock of TickSeconds-second ticks that only the sleeps observe.    *)
(***************************************************************************)
EXTENDS Integers, Sequences, FiniteSets, TLC

VARIABLES
    env,         \* the three configuration values read from the environment
    pc,          \* where main() is
    messages,    \* manage_schedule's list of ScheduledMessage
    file,        \* scheduled_messages.json on disk
    lastOp,      \* outcome of the last menu choice handled
    ops,         \* changes made to the list in this run of the menu loop
    browser,     \* "none", "open", "closed"
    closeCalls,  \* completed calls of browser.close()
    submits,     \* clicks on the login form's submit button
    tstate,      \* per task of send_messages: where run_message_loop is
    rem,         \* per task: clock ticks left of its asyncio.sleep
    stoppedAt,   \* per task: the await it was at when it ended
    cancelReq,   \* per task: task.cancel() was called on it
    sent,        \* the content in the last "Sent: ..." line printed
    textbox,     \* what the page's textbox holds (typed contents, in order)
    mainCancel,  \* a cancellation of the main task is pending
    signals,     \* where main was at each interrupt delivered so far
    sendResult,  \* how send_messages ended: "none", "returned", "raised"
    outcome      \* how the process ended

vars == <<env, pc, messages, file, lastOp, ops, browser, closeCalls, submits,
          tstate, rem, stoppedAt, cancelReq, sent, textbox, mainCancel,
          signals, sendResult, outcome>>

menuVars == <<messages, file, lastOp, ops>>
taskVars == <<tstate, rem, stoppedAt, cancelReq, sent, textbox>>
mainVars == <<browser, closeCalls, submits, mainCancel, signals, sendResult,
              outcome>>

-----------------------------------------------------------------------------
(* Bounds of the model *)

\* changes made to the list in one run of manage_schedule
MaxOps == 1
\* interrupts delivered in one run
MaxSignals == 1
\* seconds that pass in one tick of the clock
TickSeconds == 5

-----------------------------------------------------------------------------
(* Python values and JSON documents *)

PyStr(s) == [t |-> "str", v |-> s]
PyInt(n) == [t |-> "int", v |-> n]
PyFloat(n) == [t |-> "float", v |-> n]
None == [t |-> "None", v |-> 0]
ValueError == [t |-> "ValueError", v |-> 0]

ScheduledMessage(content, delay) ==
    [content |-> content, delay_seconds |-> delay]

JNull == [t |-> "null", v |-> 0]
JString(s) == [t |-> "string", v |-> s]
JNumber(kind, n) == [t |-> kind, v |-> n]
JArray(items) == [t |-> "array", v |-> items]
JObject(fields) == [t |-> "object", v |-> fields]

\* json.dumps of one Python value
ToJson(py) ==
    IF py.t = "str" THEN JString(py.v) ELSE JNumber(py.t, py.v)

\* FromJson for a parser that reads every number as a float
FromJsonAsFloat(j) ==
    IF j.t = "string" THEN PyStr(j.v) ELSE [t |-> "float", v |-> j.v]

\* json.loads of one JSON value
FromJson(j) ==
    IF j.t = "string" THEN PyStr(j.v) ELSE [t |-> j.t, v |-> j.v]

MissingFile == [kind |-> "missing", doc |-> JNull]
UnparseableFile == [kind |-> "unparseable", doc |-> JNull]
JsonFile(doc) == [kind |-> "json", doc |-> doc]

\* save_messages: the list of msg.__dict__, dumped and written over the file
save_messages(msgs) ==
    JsonFile(JArray([i \in 1..Len(msgs) |->
        JObject([k \in {"content", "delay_seconds"} |->
            IF k = "content" THEN ToJson(msgs[i].content)
                             ELSE ToJson(msgs[i].delay_seconds)])]))

\* ScheduledMessage(**item) succeeds for an object with exactly the two keys
Constructible(item) ==
    item.t = "object" /\ DOMAIN item.v = {"content", "delay_seconds"}

\* the items that iterating the loaded document yields
ItemsOf(doc) ==
    CASE doc.t = "array" -> doc.v
      [] doc.t = "object" ->
            LET keys == DOMAIN doc.v
                pick[S \in SUBSET keys] ==
                    IF S = {} THEN <<>>
                    ELSE LET k == CHOOSE x \in S : TRUE
                         IN <<JString(k)>> \o pick[S \ {k}]
            IN pick[keys]
      [] OTHER -> <<>>

\* iterating the document raises TypeError (a number, null) or yields items
\* that are no mappings (the characters of a string)
Iterable(doc) ==
    doc.t \in {"array", "object"} \/ (doc.t = "string" /\ doc.v = "")

\* load_saved_messages
load_saved_messages(f) ==
    IF f.kind # "json" THEN <<>>
    ELSE IF ~Iterable(f.doc) THEN <<>>
    ELSE LET items == ItemsOf(f.doc)
         IN IF \A i \in 1..Len(items) : Constructible(items[i])
            THEN [i \in 1..Len(items) |->
                    ScheduledMessage(FromJson(items[i].v["content"]),
                                     FromJson(items[i].v["delay_seconds"]))]
            ELSE <<>>

-----------------------------------------------------------------------------
(* Console input *)

\* str.strip() on the lines the model types at the prompts
Strip(raw) ==
    CASE raw = " " -> ""
      [] raw = " hi " -> "hi"
      [] raw = " 5 " -> "5"
      [] OTHER -> raw

\* float(raw): a number, or ValueError
ParseFloat(s) ==
    CASE s = "-5" -> PyFloat(-5)
      [] s = "0" -> PyFloat(0)
      [] s = "5" -> PyFloat(5)
      [] s = "10" -> PyFloat(10)
      [] OTHER -> ValueError

\* int(raw): a number, or ValueError
ParseInt(s) ==
    CASE s = "0" -> PyInt(0)
      [] s = "1" -> PyInt(1)
      [] s = "2" -> PyInt(2)
      [] s = "3" -> PyInt(3)
      [] s = "4" -> PyInt(4)
      [] OTHER -> ValueError

RawContents == {"", " ", " hi "}
RawDelays == {"", "x", "-5", " 5 "}
RawIndexes == {"x", "0", "1", "2", "3", "4"}

\* prompt_float: the value returned for the line that ends the prompt loop;
\* a line the loop rejects has no value and the prompt is shown again
prompt_float(raw, allow_empty) ==
    IF allow_empty /\ Strip(raw) = "" THEN None ELSE ParseFloat(Strip(raw))

PromptFloatReturns(raw, allow_empty) ==
    prompt_float(raw, allow_empty).t # "ValueError"

\* prompt_index: the line that ends the prompt loop is a number in 1..max
PromptIndexReturns(raw, max_index) ==
    /\ max_index # 0
    /\ ParseInt(Strip(raw)).t = "int"
    /\ 1 <= ParseInt(Strip(raw)).v
    /\ ParseInt(Strip(raw)).v <= max_index

prompt_index(raw, max_index) ==
    IF max_index = 0 THEN None ELSE PyInt(ParseInt(Strip(raw)).v - 1)

-----------------------------------------------------------------------------
(* Initial state: the environment and the snapshot file are whatever the     *)
(* user left there                                                           *)

EnvValues == {"unset", "", "set"}

ByeFive == JObject([k \in {"content", "delay_seconds"} |->
            IF k = "content" THEN JString("bye") ELSE JNumber("int", 5)])
HiTen == JObject([k \in {"content", "delay_seconds"} |->
            IF k = "content" THEN JString("hi") ELSE JNumber("float", 10)])
EmptyMinus == JObject([k \in {"content", "delay_seconds"} |->
            IF k = "content" THEN JString("") ELSE JNumber("float", -5)])
OnlyContent == JObject([k \in {"content"} |-> JString("hi")])
SevenFive == JObject([k \in {"content", "delay_seconds"} |->
            IF k = "content" THEN JNumber("int", 7) ELSE JNumber("int", 5)])

InitialFiles ==
    { MissingFile, UnparseableFile,
      JsonFile(JNumber("int", 7)),
      JsonFile(JArray(<<JNumber("int", 7)>>)),
      JsonFile(JArray(<<OnlyContent>>)),
      JsonFile(JArray(<<ByeFive>>)),
      JsonFile(JArray(<<ByeFive, HiTen>>)),
      JsonFile(JArray(<<EmptyMinus>>)),
      JsonFile(JArray(<<SevenFive>>)) }

NoOp(op) == [op |-> op, index |-> 0, content |-> "", delay |-> ""]

Init ==
    /\ env \in [{"DISCORD_EMAIL", "DISCORD_PASSWORD", "DISCORD_CHANNEL_URL"}
                  -> EnvValues]
    /\ file \in InitialFiles
    /\ pc = "config"
    /\ messages = <<>>
    /\ lastOp = NoOp("none")
    /\ ops = 0
    /\ browser = "none"
    /\ closeCalls = 0
    /\ submits = 0
    /\ tstate = <<>>
    /\ rem = <<>>
    /\ stoppedAt = <<>>
    /\ cancelReq = <<>>
    /\ sent = None
    /\ textbox = <<>>
    /\ mainCancel = FALSE
    /\ signals = <<>>
    /\ sendResult = "none"
    /\ outcome = "running"

-----------------------------------------------------------------------------
(* main, up to the menu *)

\* ConfigComplete for a test of "is not None": an empty value passes
ConfigNotNone == \A k \in DOMAIN env : env[k] # "unset"

\* all([email, password, channel_url]): every value is set and non-empty
ConfigComplete == \A k \in DOMAIN env : env[k] = "set"

CheckConfig ==
    /\ pc = "config"
    /\ IF ConfigComplete
       THEN pc' = "load" /\ outcome' = outcome
       ELSE pc' = "exited" /\ outcome' = "config_error"
    /\ UNCHANGED <<env, menuVars, taskVars, browser, closeCalls, submits,
                   mainCancel, signals, sendResult>>

-----------------------------------------------------------------------------
(* manage_schedule *)

LoadSchedule ==
    /\ pc = "load"
    /\ messages' = load_saved_messages(file)
    /\ pc' = "menu"
    /\ UNCHANGED <<env, file, lastOp, ops, taskVars, mainVars>>

RawChoices == {"1", "2", "3", "4", "5", "6", "q", " Q ", "7", ""}

\* input(...).strip().lower()
Choice(raw) == IF raw = " Q " THEN "q" ELSE raw

Chosen(c) == \E raw \in RawChoices : Choice(raw) = c

\* the menu loop goes round again with only the console changed
MenuStays(op) ==
    /\ lastOp' = NoOp(op)
    /\ UNCHANGED <<env, pc, messages, file, ops, taskVars, mainVars>>

\* a handler that changed the list, saved it and printed its confirmation
MenuSaved(op, msgs) ==
    /\ messages' = msgs
    /\ file' = save_messages(msgs)
    /\ lastOp' = op
    /\ ops' = ops + 1
    /\ UNCHANGED <<env, pc, taskVars, mainVars>>

Add ==
    /\ pc = "menu" /\ Chosen("1") /\ ops < MaxOps
    /\ \E rawc \in RawContents, rawd \in RawDelays :
         LET content == Strip(rawc)
         IN IF content = ""
            THEN MenuStays("add_rejected")
            ELSE /\ PromptFloatReturns(rawd, FALSE)
                 /\ MenuSaved(
                      [op |-> "add", index |-> Len(messages),
                       content |-> content, delay |-> Strip(rawd)],
                      Append(messages,
                             ScheduledMessage(PyStr(content),
                                              prompt_float(rawd, FALSE))))

\* Edited with the two guards of lines 165 and 167 left out
EditedOverwrites(current, new_content, new_delay) ==
    [content |-> PyStr(new_content),
     delay_seconds |-> IF new_delay.t # "None" THEN new_delay ELSE PyFloat(0)]

\* lines 165-168: a blank content or a blank delay keeps the current value
Edited(current, new_content, new_delay) ==
    [content |-> IF new_content # "" THEN PyStr(new_content)
                 ELSE current.content,
     delay_seconds |-> IF new_delay.t # "None" THEN new_delay
                       ELSE current.delay_seconds]

Edit ==
    /\ pc = "menu" /\ Chosen("2") /\ ops < MaxOps
    /\ IF prompt_index("", Len(messages)) = None
       THEN MenuStays("edit_none")
       ELSE \E rawi \in RawIndexes, rawc \in RawContents, rawd \in RawDelays :
              /\ PromptIndexReturns(rawi, Len(messages))
              /\ PromptFloatReturns(rawd, TRUE)
              /\ LET index == prompt_index(rawi, Len(messages)).v
                     current == messages[index + 1]
                 IN MenuSaved(
                      [op |-> "edit", index |-> index,
                       content |-> Strip(rawc), delay |-> Strip(rawd)],
                      [messages EXCEPT ![index + 1] =
                          Edited(current, Strip(rawc), prompt_float(rawd, TRUE))])

\* Pop for list.pop() without its argument: the last message goes
PopLast(msgs, index) ==
    [j \in 1..(Len(msgs) - 1) |-> msgs[j]]

\* list.pop(index)
Pop(msgs, index) ==
    [j \in 1..(Len(msgs) - 1) |-> IF j <= index THEN msgs[j] ELSE msgs[j + 1]]

\* Delete with the save_messages call of line 178 left out
DeleteUnsaved ==
    /\ pc = "menu" /\ Chosen("3") /\ ops < MaxOps
    /\ IF prompt_index("", Len(messages)) = None
       THEN MenuStays("delete_none")
       ELSE \E rawi \in RawIndexes :
              /\ PromptIndexReturns(rawi, Len(messages))
              /\ LET index == prompt_index(rawi, Len(messages)).v
                 IN /\ messages' = Pop(messages, index)
                    /\ lastOp' = [op |-> "delete", index |-> index,
                                  content |-> "", delay |-> ""]
                    /\ ops' = ops + 1
                    /\ UNCHANGED <<env, pc, file, taskVars, mainVars>>

Delete ==
    /\ pc = "menu" /\ Chosen("3") /\ ops < MaxOps
    /\ IF prompt_index("", Len(messages)) = None
       THEN MenuStays("delete_none")
       ELSE \E rawi \in RawIndexes :
              /\ PromptIndexReturns(rawi, Len(messages))
              /\ LET index == prompt_index(rawi, Len(messages)).v
                 IN MenuSaved(
                      [op |-> "delete", index |-> index,
                       content |-> "", delay |-> ""],
                      Pop(messages, index))

Clear ==
    /\ pc = "menu" /\ Chosen("4") /\ ops < MaxOps
    /\ MenuSaved(NoOp("clear"), <<>>)

SampleSchedule ==
    << ScheduledMessage(
         PyStr("Hello from the Discord browser automation demo!"), PyInt(5)),
       ScheduledMessage(
         PyStr("Each message can have its own delay."), PyInt(10)),
       ScheduledMessage(
         PyStr("Update the list in main.py to fit your needs."), PyInt(15)) >>

LoadSample ==
    /\ pc = "menu" /\ Chosen("6") /\ ops < MaxOps
    /\ MenuSaved(NoOp("sample"), SampleSchedule)

\* StartSending with the emptiness check of lines 185-187 left out
StartSendingUnchecked ==
    /\ pc = "menu" /\ Chosen("5")
    /\ file' = save_messages(messages)
    /\ lastOp' = NoOp("start")
    /\ pc' = "launch"
    /\ ops' = 0
    /\ UNCHANGED <<env, messages, taskVars, mainVars>>

StartSending ==
    /\ pc = "menu" /\ Chosen("5")
    /\ IF Len(messages) = 0
       THEN MenuStays("start_rejected")
       ELSE /\ file' = save_messages(messages)
            /\ lastOp' = NoOp("start")
            /\ pc' = "launch"
            /\ ops' = 0
            /\ UNCHANGED <<env, messages, taskVars, mainVars>>

Quit ==
    /\ pc = "menu" /\ Chosen("q")
    /\ pc' = "exited"
    /\ outcome' = "quit"
    /\ lastOp' = NoOp("quit")
    /\ UNCHANGED <<env, messages, file, ops, taskVars, browser, closeCalls,
                   submits, mainCancel, signals, sendResult>>

InvalidChoice ==
    /\ pc = "menu"
    /\ \E raw \in RawChoices :
         Choice(raw) \notin {"1", "2", "3", "4", "5", "6", "q"}
    /\ MenuStays("invalid")

-----------------------------------------------------------------------------
(* main: browser launch and ensure_logged_in *)

\* an exception leaves the try block of main: its finally block runs next
RaiseInTry(kind) ==
    /\ pc' = "cleanup"
    /\ outcome' = kind

Launch ==
    /\ pc = "launch"
    /\ browser' = "open"
    /\ pc' = "new_page"
    /\ UNCHANGED <<env, menuVars, taskVars, closeCalls, submits, mainCancel,
                   signals, sendResult, outcome>>

NewPage ==
    /\ pc = "new_page"
    /\ pc' = "goto_login"
    /\ UNCHANGED <<env, menuVars, taskVars, mainVars>>

\* page.goto(login) and the optional interstitial click, whose timeout is
\* swallowed by click_open_in_browser
GotoLogin ==
    /\ pc = "goto_login"
    /\ \E loaded \in BOOLEAN :
         IF loaded THEN pc' = "probe1" /\ outcome' = outcome
                   ELSE RaiseInTry("auth_error")
    /\ UNCHANGED <<env, menuVars, taskVars, browser, closeCalls, submits,
                   mainCancel, signals, sendResult>>

\* Probe1 for a handshake that, finding the textbox at once, goes straight
\* to the last wait
Probe1SkipsNavigation ==
    /\ pc = "probe1"
    /\ \E found \in BOOLEAN :
         pc' = IF found THEN "probe2" ELSE "fields"
    /\ UNCHANGED <<env, menuVars, taskVars, mainVars>>

\* the first wait_for_textbox: a timeout is the "not signed in" branch
Probe1 ==
    /\ pc = "probe1"
    /\ \E found \in BOOLEAN :
         pc' = IF found THEN "goto_channel" ELSE "fields"
    /\ UNCHANGED <<env, menuVars, taskVars, mainVars>>

\* Fields for a wait whose timeout is swallowed like the interstitial's
FieldsTimeoutSwallowed ==
    /\ pc = "fields"
    /\ \E found \in BOOLEAN :
         /\ pc' = "goto_channel"
         /\ submits' = IF found THEN submits + 1 ELSE submits
         /\ outcome' = outcome
    /\ UNCHANGED <<env, menuVars, taskVars, browser, closeCalls, mainCancel,
                   signals, sendResult>>

\* wait for the e-mail field, fill both fields, click submit
Fields ==
    /\ pc = "fields"
    /\ \E found \in BOOLEAN :
         IF found
         THEN pc' = "goto_channel" /\ submits' = submits + 1
              /\ outcome' = outcome
         ELSE RaiseInTry("auth_error") /\ submits' = submits
    /\ UNCHANGED <<env, menuVars, taskVars, browser, closeCalls, mainCancel,
                   signals, sendResult>>

GotoChannel ==
    /\ pc = "goto_channel"
    /\ \E loaded \in BOOLEAN :
         IF loaded THEN pc' = "probe2" /\ outcome' = outcome
                   ELSE RaiseInTry("auth_error")
    /\ UNCHANGED <<env, menuVars, taskVars, browser, closeCalls, submits,
                   mainCancel, signals, sendResult>>

-----------------------------------------------------------------------------
(* send_messages *)

\* clock ticks an asyncio.sleep(delay) lasts; a delay <= 0 only yields
TicksOf(delay) ==
    IF delay.v <= 0 THEN 0
    ELSE (delay.v + TickSeconds - 1) \div TickSeconds

Tasks == DOMAIN tstate

TaskLive(i) == tstate[i] \in {"sleep", "fill", "type", "press"}
Failed == {i \in Tasks : tstate[i] = "failed"}

\* a task takes its next step unless it was cancelled; a task's exception
\* reaches main within the loop's next iterations, and the steps other
\* tasks take in those iterations are independent of it, so they are taken
\* before it
TaskRuns(i) == TaskLive(i) /\ ~cancelReq[i] /\ Failed = {}

\* the second wait_for_textbox; when it finds the textbox ensure_logged_in
\* returns and send_messages creates one task per message, each entering
\* its first asyncio.sleep
Probe2 ==
    /\ pc = "probe2"
    /\ \E found \in BOOLEAN :
         IF found
         THEN /\ pc' = "gather"
              /\ tstate' = [i \in 1..Len(messages) |-> "sleep"]
              /\ rem' = [i \in 1..Len(messages) |->
                            TicksOf(messages[i].delay_seconds)]
              /\ stoppedAt' = [i \in 1..Len(messages) |-> "none"]
              /\ cancelReq' = [i \in 1..Len(messages) |-> FALSE]
              /\ sent' = None
              /\ outcome' = outcome
         ELSE /\ RaiseInTry("auth_error")
              /\ UNCHANGED <<tstate, rem, stoppedAt, cancelReq, sent>>
    /\ UNCHANGED <<env, menuVars, textbox, browser, closeCalls, submits,
                   mainCancel, signals, sendResult>>

\* AfterStep for a body without the while loop: the task ends after a send
AfterStepOnce(s) ==
    CASE s = "sleep" -> "fill"
      [] s = "fill" -> "type"
      [] s = "type" -> "press"
      [] s = "press" -> "done"

\* AfterStep for a loop body that goes round again without pressing Enter
AfterStepSkipsEnter(s) ==
    CASE s = "sleep" -> "fill"
      [] s = "fill" -> "type"
      [] s = "type" -> "fill"
      [] s = "press" -> "sleep"

\* run_message_loop: the await that follows each await of the loop body
AfterStep(s) ==
    CASE s = "sleep" -> "fill"
      [] s = "fill" -> "type"
      [] s = "type" -> "press"
      [] s = "press" -> "sleep"

\* the sleep is over: the task calls textbox.fill("")
Wake(i) ==
    /\ TaskRuns(i) /\ tstate[i] = "sleep" /\ rem[i] = 0
    /\ tstate' = [tstate EXCEPT ![i] = AfterStep("sleep")]
    /\ UNCHANGED <<env, pc, menuVars, rem, stoppedAt, cancelReq, sent, textbox, mainVars>>

\* fill("") has cleared the textbox: the task calls textbox.type(content)
Fill(i) ==
    /\ TaskRuns(i) /\ tstate[i] = "fill"
    /\ textbox' = <<>>
    /\ tstate' = [tstate EXCEPT ![i] = AfterStep("fill")]
    /\ UNCHANGED <<env, pc, menuVars, rem, stoppedAt, cancelReq, sent,
                   mainVars>>

\* type(content) has typed after what the textbox held: the task presses
\* Enter; for a content that is no string the call can only raise
Type(i) ==
    /\ TaskRuns(i) /\ tstate[i] = "type"
    /\ messages[i].content.t = "str"
    /\ textbox' = Append(textbox, messages[i].content)
    /\ tstate' = [tstate EXCEPT ![i] = AfterStep("type")]
    /\ UNCHANGED <<env, pc, menuVars, rem, stoppedAt, cancelReq, sent,
                   mainVars>>

\* Press for a loop that sleeps only before its first send
PressWithoutSleep(i) ==
    /\ TaskRuns(i) /\ tstate[i] = "press"
    /\ textbox' = <<>>
    /\ tstate' = [tstate EXCEPT ![i] = AfterStep("press")]
    /\ rem' = [rem EXCEPT ![i] = 0]
    /\ sent' = messages[i].content
    /\ UNCHANGED <<env, pc, menuVars, stoppedAt, cancelReq, mainVars>>

\* Enter has submitted what the textbox held: the task sleeps again
Press(i) ==
    /\ TaskRuns(i) /\ tstate[i] = "press"
    /\ textbox' = <<>>
    /\ tstate' = [tstate EXCEPT ![i] = AfterStep("press")]
    /\ rem' = [rem EXCEPT ![i] = TicksOf(messages[i].delay_seconds)]
    /\ sent' = messages[i].content
    /\ UNCHANGED <<env, pc, menuVars, stoppedAt, cancelReq, mainVars>>

\* the awaited textbox call raises (the textbox is not found in time)
Fail(i) ==
    /\ TaskRuns(i) /\ tstate[i] \in {"fill", "type", "press"}
    /\ tstate' = [tstate EXCEPT ![i] = "failed"]
    /\ stoppedAt' = [stoppedAt EXCEPT ![i] = tstate[i]]
    /\ UNCHANGED <<env, pc, menuVars, rem, cancelReq, sent, textbox,
                   mainVars>>

\* CancelledError is thrown into every task that task.cancel() was called
\* on, each at the await it is suspended on, in the loop's next iteration
TasksCancelled ==
    /\ \E i \in Tasks : TaskLive(i) /\ cancelReq[i]
    /\ tstate' = [i \in Tasks |->
                    IF TaskLive(i) /\ cancelReq[i] THEN "cancelled"
                    ELSE tstate[i]]
    /\ stoppedAt' = [i \in Tasks |->
                       IF TaskLive(i) /\ cancelReq[i] THEN tstate[i]
                       ELSE stoppedAt[i]]
    /\ rem' = [i \in Tasks |->
                 IF TaskLive(i) /\ cancelReq[i] THEN 0 ELSE rem[i]]
    /\ UNCHANGED <<env, pc, menuVars, cancelReq, sent, textbox, mainVars>>

\* time passes for the sleeping tasks; a task whose sleep is over is woken
\* before the clock moves on
Tick ==
    /\ pc = "gather"
    /\ \E i \in Tasks : TaskRuns(i) /\ tstate[i] = "sleep" /\ rem[i] > 0
    /\ \A i \in Tasks : ~(TaskRuns(i) /\ tstate[i] = "sleep" /\ rem[i] = 0)
    /\ rem' = [i \in Tasks |->
                 IF TaskRuns(i) /\ tstate[i] = "sleep" /\ rem[i] > 0
                 THEN rem[i] - 1 ELSE rem[i]]
    /\ UNCHANGED <<env, pc, menuVars, tstate, stoppedAt, sent, cancelReq, textbox, mainVars>>

\* CancelAll with the finally block of lines 224-226 left out
CancelNone == cancelReq

\* lines 224-226: task.cancel() on every task
CancelAll == [i \in Tasks |-> TRUE]

\* a task's exception reaches the await of gather: not a CancelledError, so
\* only the finally block runs and the exception leaves send_messages; a
\* cancellation of main pending at that moment is thrown instead
GatherRaises ==
    /\ pc = "gather" /\ Failed # {}
    /\ cancelReq' = CancelAll
    /\ IF mainCancel
       THEN sendResult' = "returned" /\ outcome' = "stopped"
       ELSE sendResult' = "raised" /\ outcome' = "delivery_error"
    /\ pc' = "cleanup"
    /\ mainCancel' = FALSE
    /\ UNCHANGED <<env, menuVars, tstate, rem, stoppedAt, sent, textbox,
                   browser, closeCalls, submits, signals>>

\* GatherCancelled with the except clause of lines 222-223 left out
GatherCancelledReraises ==
    /\ pc = "gather" /\ Failed = {}
    /\ mainCancel \/ Tasks = {}
    /\ \A i \in Tasks : ~TaskLive(i)
    /\ cancelReq' = CancelAll
    /\ sendResult' = IF mainCancel THEN "raised" ELSE "returned"
    /\ outcome' = IF mainCancel THEN "cancelled" ELSE "stopped"
    /\ pc' = "cleanup"
    /\ mainCancel' = FALSE
    /\ UNCHANGED <<env, menuVars, tstate, rem, stoppedAt, sent, textbox,
                   browser, closeCalls, submits, signals>>

\* gather ends cancelled once every task has ended (or at once, with no
\* task): CancelledError is swallowed and send_messages returns
GatherCancelled ==
    /\ pc = "gather" /\ Failed = {}
    /\ mainCancel \/ Tasks = {}
    /\ \A i \in Tasks : ~TaskLive(i)
    /\ cancelReq' = CancelAll
    /\ sendResult' = "returned"
    /\ outcome' = "stopped"
    /\ pc' = "cleanup"
    /\ mainCancel' = FALSE
    /\ UNCHANGED <<env, menuVars, tstate, rem, stoppedAt, sent, textbox,
                   browser, closeCalls, submits, signals>>

-----------------------------------------------------------------------------
(* main: the finally block, and the interrupt *)

\* main returns or raises and asyncio.run closes the loop: the tasks and the
\* page are gone
ProcessEnds ==
    /\ pc' = "exited"
    /\ tstate' = <<>>
    /\ rem' = <<>>
    /\ stoppedAt' = <<>>
    /\ cancelReq' = <<>>
    /\ textbox' = <<>>
    /\ sent' = sent

\* await asyncio.sleep(1): the cancelled tasks end in the loop's next
\* iteration, before the second is over
CleanupSleep ==
    /\ pc = "cleanup"
    /\ \A i \in Tasks : ~TaskLive(i)
    /\ pc' = "closing"
    /\ UNCHANGED <<env, menuVars, taskVars, mainVars>>

\* await browser.close(); then the pending exception, if any, leaves main
Close ==
    /\ pc = "closing"
    /\ browser' = "closed"
    /\ closeCalls' = closeCalls + 1
    /\ ProcessEnds
    /\ UNCHANGED <<env, menuVars, submits, mainCancel, signals, sendResult,
                   outcome>>

AuthPcs == {"goto_login", "probe1", "fields", "goto_channel", "probe2"}

\* Ctrl+C: the main task is cancelled at the await it is suspended on.
\* Awaiting gather, the cancellation is passed to gather, which cancels
\* every task unless it has already ended with a task's exception.
\* Outside the try block and inside the finally block the CancelledError
\* leaves main without browser.close().
Interrupt ==
    /\ Len(signals) < MaxSignals
    /\ pc \in {"launch", "new_page", "gather", "cleanup", "closing"} \cup AuthPcs
    /\ signals' = Append(signals,
                         IF pc = "gather" /\ Failed # {} THEN "gather_failed"
                         ELSE pc)
    /\ CASE pc = "gather" ->
              /\ mainCancel' = TRUE
              /\ cancelReq' = IF Failed = {} THEN CancelAll ELSE cancelReq
              /\ UNCHANGED <<pc, outcome, browser, tstate, rem, stoppedAt,
                             sent, textbox>>
         [] pc \in AuthPcs ->
              /\ RaiseInTry("cancelled")
              /\ UNCHANGED <<mainCancel, browser, taskVars>>
         [] pc \in {"launch", "new_page", "cleanup"} ->
              /\ ProcessEnds
              /\ outcome' = "cancelled"
              /\ UNCHANGED <<mainCancel, browser>>
         [] pc = "closing" ->
              /\ ProcessEnds
              /\ outcome' = "cancelled"
              /\ browser' \in {"open", "closed"}
              /\ UNCHANGED mainCancel
    /\ UNCHANGED <<env, menuVars, closeCalls, submits, sendResult>>

\* the status the interpreter exits with: SystemExit carrying a message
\* and an uncaught exception give 1, an uncaught KeyboardInterrupt gives
\* the status of a process killed by SIGINT, a main that returned gives 0
ExitStatus ==
    CASE outcome \in {"quit", "config_error"} -> 1
      [] outcome \in {"auth_error", "delivery_error"} -> 1
      [] outcome = "cancelled" -> 130
      [] outcome = "stopped" -> 0

\* the variables that the message of the configuration error names
ConfigErrorNames ==
    {"DISCORD_EMAIL", "DISCORD_PASSWORD", "DISCORD_CHANNEL_URL"}

-----------------------------------------------------------------------------

Next ==
    \/ CheckConfig
    \/ LoadSchedule
    \/ Add
    \/ Edit
    \/ Delete
    \/ Clear
    \/ LoadSample
    \/ StartSending
    \/ Quit
    \/ InvalidChoice
    \/ Launch
    \/ NewPage
    \/ GotoLogin
    \/ Probe1
    \/ Fields
    \/ GotoChannel
    \/ Probe2
    \/ \E i \in Tasks : Wake(i)
    \/ \E i \in Tasks : Fill(i)
    \/ \E i \in Tasks : Type(i)
    \/ \E i \in Tasks : Press(i)
    \/ \E i \in Tasks : Fail(i)
    \/ TasksCancelled
    \/ Tick
    \/ GatherRaises
    \/ GatherCancelled
    \/ CleanupSleep
    \/ Close
    \/ Interrupt

Spec == Init /\ [][Next]_vars

\* the tasks that send_messages can have: the longest list the menu can
\* hand over has two loaded messages and one more for each change
TaskIds == 1..(MaxOps + 2)

\* the next step of task i, whichever await it is at
TaskStep(i) == i \in Tasks /\ (Wake(i) \/ Fill(i) \/ Type(i) \/ Press(i))

\* the event loop resumes every task whose awaited call has completed, in
\* the order the calls completed, and the clock does not stop
Fairness ==
    /\ \A i \in TaskIds : WF_vars(TaskStep(i))
    /\ SF_vars(Tick)

FairSpec == Spec /\ Fairness

-----------------------------------------------------------------------------
(* The claims *)

\* C8: every message of the list has a non-empty content and a delay of at
\* least 0.
ScheduleValid ==
    \A i \in 1..Len(messages) :
       /\ messages[i].content.t = "str"
       /\ messages[i].content.v # ""
       /\ messages[i].delay_seconds.v >= 0

\* a task has cleared the textbox for a send and not yet pressed Enter
MidSend(i) == tstate[i] \in {"type", "press"}

\* an interrupt arrived while send_messages was awaiting its running tasks
InterruptedDelivery == \E k \in DOMAIN signals : signals[k] = "gather"

\* C1: delivering a valid schedule, between the clear and the submit of one
\* task's send no other task clears, types or submits: no two tasks are
\* ever both between their clear and their submit.
SendsNeverInterleave ==
    ScheduleValid => Cardinality({i \in Tasks : MidSend(i)}) <= 1

\* C2: a task begins a send (calls fill) only out of its delay wait, and it
\* is in its delay wait only at its start or once the Enter of its previous
\* send has completed and "Sent:" was printed for it.
SameMessageSendsNeverOverlap ==
    [][\A i \in Tasks : i \in DOMAIN tstate' =>
         /\ (tstate'[i] = "fill" /\ tstate[i] # "fill") => tstate[i] = "sleep"
         /\ (tstate'[i] = "sleep" /\ tstate[i] # "sleep") =>
               tstate[i] = "press" /\ sent' = messages[i].content]_vars

\* C2 witness: a task that has printed "Sent:" has begun its next send
SecondSendBegun ==
    \E i \in Tasks :
       /\ ScheduleValid
       /\ tstate[i] = "fill"
       /\ sent = messages[i].content
       /\ \A j \in Tasks \ {i} : messages[j].content # messages[i].content

\* C3: once an interrupt has arrived at running delivery, the only step a
\* task takes is to end cancelled, nothing more is cleared, typed or
\* submitted, and send_messages does not raise and has returned only when
\* every task has ended.
InterruptStopsEveryTimer ==
    /\ [](InterruptedDelivery =>
            /\ sendResult # "raised"
            /\ sendResult = "returned" => \A i \in Tasks : ~TaskLive(i))
    /\ [][(InterruptedDelivery /\ pc' # "exited") =>
            /\ sent' = sent
            /\ textbox' = textbox
            /\ \A i \in Tasks :
                 tstate'[i] # tstate[i] => tstate'[i] = "cancelled"]_vars

\* C3 witness: send_messages has returned after an interrupt that found a
\* task in its delay wait
InterruptedInDelayWait ==
    /\ ScheduleValid
    /\ InterruptedDelivery
    /\ sendResult = "returned"
    /\ \E i \in Tasks : tstate[i] = "cancelled" /\ stoppedAt[i] = "sleep"

\* C4: after an interrupt of the delivery of a valid schedule no task has
\* ended between the clear and the submit of a send.
InterruptLeavesNoPartialSend ==
    (ScheduleValid /\ InterruptedDelivery) =>
       \A i \in Tasks :
          tstate[i] = "cancelled" => stoppedAt[i] \notin {"type", "press"}

\* C5 as stated: delivering a valid schedule, a task's failure, with no
\* interrupt, never ends or cancels the task of another message.
FailureIsPerTimer ==
    (ScheduleValid /\ Failed # {} /\ signals = <<>>) =>
       \A j \in Tasks \ Failed : ~cancelReq[j] /\ tstate[j] # "cancelled"

\* C5 as amended: a task's failure is fatal for the whole run: when
\* send_messages has raised, every other task has been cancelled, and from
\* then on no task clears, types or submits.
FailureStopsEveryTimer ==
    /\ [](sendResult = "raised" =>
            \A i \in Tasks :
               tstate[i] \in {"failed", "cancelled"} \/ cancelReq[i])
    /\ [][(sendResult = "raised" /\ pc' # "exited") =>
            /\ sent' = sent
            /\ textbox' = textbox
            /\ \A i \in Tasks :
                 tstate'[i] # tstate[i] => tstate'[i] = "cancelled"]_vars

\* C5 witness: one task failed, send_messages raised and another task ended
\* cancelled
FailureCancelledAnother ==
    /\ ScheduleValid
    /\ sendResult = "raised"
    /\ \E i, j \in Tasks : tstate[i] = "failed" /\ tstate[j] = "cancelled"

DeliveryOnlyFromStart ==
    /\ [](browser # "none" => Len(messages) > 0)
    /\ [](pc = "gather" => Tasks = 1..Len(messages) /\ Tasks # {})
    /\ [][(pc = "menu" /\ pc' \notin {"menu", "exited"}) =>
            /\ lastOp'.op = "start"
            /\ pc' = "launch"
            /\ messages' = messages
            /\ Len(messages) > 0]_vars
    /\ [][(pc = "menu" /\ lastOp'.op = "start_rejected") =>
            pc' = "menu" /\ messages = <<>> /\ messages' = <<>>]_vars

\* C7 witness: start-sending was chosen with an empty list and the menu is
\* shown again
StartRejected ==
    /\ pc = "menu"
    /\ lastOp.op = "start_rejected"
    /\ messages = <<>>

\* C9: an edit of message i keeps the length of the list and every other
\* message; a blank content keeps the content, a blank delay keeps the
\* delay, and a supplied content or delay replaces exactly that field.
EditUpdatesOnlySuppliedFields ==
    [][(pc = "menu" /\ lastOp'.op = "edit" /\ ops' = ops + 1) =>
         LET i == lastOp'.index + 1
         IN /\ Len(messages') = Len(messages)
            /\ i \in 1..Len(messages)
            /\ \A j \in 1..Len(messages) :
                 j # i => messages'[j] = messages[j]
            /\ IF lastOp'.content = ""
               THEN messages'[i].content = messages[i].content
               ELSE messages'[i].content = PyStr(lastOp'.content)
            /\ IF lastOp'.delay = ""
               THEN messages'[i].delay_seconds = messages[i].delay_seconds
               ELSE messages'[i].delay_seconds = ParseFloat(lastOp'.delay)]_vars

\* C9 witness: the first of two loaded messages was edited with a new
\* content and a blank delay
EditedContentOnly ==
    /\ lastOp = [op |-> "edit", index |-> 0, content |-> "hi", delay |-> ""]
    /\ messages = << ScheduledMessage(PyStr("hi"), PyInt(5)),
                     ScheduledMessage(PyStr("hi"), PyFloat(10)) >>

\* C10: after every add, edit, delete, clear and load-sample that completed,
\* and from the moment start-sending returns the list, the file holds the
\* dump of the list.
SnapshotMatchesSchedule ==
    lastOp.op \in {"add", "edit", "delete", "clear", "sample", "start"} =>
       /\ file.kind = "json"
       /\ file.doc.t = "array"
       /\ file = save_messages(messages)

\* C10 witness: a delete completed and left a message in the list
DeletedAndSaved ==
    /\ lastOp.op = "delete"
    /\ Len(messages) = 1
    /\ file = save_messages(messages)

\* what C11 calls a corrupted snapshot: a file that does not parse, a
\* document that is no list, or a list with an item that is not an object
\* with exactly a string content and a number delay_seconds
WellFormedItem(item) ==
    /\ item.t = "object"
    /\ DOMAIN item.v = {"content", "delay_seconds"}
    /\ item.v["content"].t = "string"
    /\ item.v["delay_seconds"].t \in {"int", "float"}

Corrupted(f) ==
    \/ f.kind = "unparseable"
    \/ /\ f.kind = "json"
       /\ \/ f.doc.t # "array"
          \/ \E i \in 1..Len(f.doc.v) : ~WellFormedItem(f.doc.v[i])

\* the menu is shown for the first time: the list is what load returned
JustLoaded == pc = "menu" /\ lastOp.op = "none"

\* C11: when the snapshot is corrupted, the list that load_saved_messages
\* returns to the menu is empty.
LoadOfCorruptedIsEmpty ==
    (JustLoaded /\ Corrupted(file)) => messages = <<>>

\* the menu choices that end by writing the list to the file
SavingOps == {"add", "edit", "delete", "clear", "sample", "start"}

\* C12: whenever a valid list has just been saved, load_saved_messages of
\* the file that save_messages wrote returns that list: as many messages,
\* in the same order, each with the same content and delay_seconds.
SaveThenLoadRoundTrips ==
    (ScheduleValid /\ lastOp.op \in SavingOps) =>
       LET loaded == load_saved_messages(file)
       IN /\ Len(loaded) = Len(messages)
          /\ \A i \in 1..Len(messages) :
                /\ loaded[i].content = messages[i].content
                /\ loaded[i].delay_seconds = messages[i].delay_seconds

\* C12 witness: a valid list of three messages, with an integer and float
\* delays, was saved by an add and loads back as itself
SavedThreeLoadsBack ==
    /\ ScheduleValid
    /\ lastOp.op = "add"
    /\ Len(messages) = 3
    /\ messages[1].delay_seconds.t = "int"
    /\ messages[3].delay_seconds.t = "float"
    /\ load_saved_messages(file) = messages

\* an exception is leaving main's try block: a timeout, or an interrupt
RaisedInTry == pc = "cleanup" /\ outcome \in {"auth_error", "cancelled"}

\* C13: "Sent:" is printed only while send_messages awaits its tasks, which
\* main reaches only from the second wait_for_textbox; that wait ends
\* either there or with an exception, nothing sent and no task created;
\* the wait for the login fields ends either with the submit or with an
\* exception; and a run that ended with the handshake's error sent nothing.
NoSendWithoutFinalProbe ==
    /\ [][(sent' # sent /\ sent' # None) =>
            pc = "gather" /\ pc' = "gather"]_vars
    /\ [][(pc # "gather" /\ pc' = "gather") => pc = "probe2"]_vars
    /\ [][(pc = "probe2" /\ pc' # "probe2") =>
            \/ pc' = "gather"
            \/ RaisedInTry' /\ sent' = None /\ tstate' = <<>>]_vars
    /\ [][(pc = "fields" /\ pc' # "fields") =>
            \/ pc' = "goto_channel" /\ submits' = submits + 1
            \/ RaisedInTry' /\ sent' = None /\ tstate' = <<>>]_vars
    /\ [](outcome = "auth_error" =>
            /\ pc \in {"cleanup", "closing", "exited"}
            /\ sent = None
            /\ sendResult = "none")

\* C13 witness: the run has ended with the handshake's error after the
\* login form was submitted, with the browser closed and nothing sent
EndedUnauthenticated ==
    /\ pc = "exited"
    /\ outcome = "auth_error"
    /\ submits = 1
    /\ browser = "closed"
    /\ sent = None

\* the configuration values that are absent or empty
MissingConfig == {k \in DOMAIN env : env[k] \in {"unset", ""}}

\* C14: with a configuration value absent or empty, main goes from its
\* start straight to an exit with status 1 and the configuration error,
\* whose message names every missing variable; the list is never loaded,
\* no menu choice is handled, the file is never written and no browser is
\* launched.
MissingConfigIsFatalAtStart ==
    /\ [](MissingConfig # {} =>
            /\ pc \in {"config", "exited"}
            /\ pc = "exited" =>
                  /\ outcome = "config_error"
                  /\ ExitStatus = 1
                  /\ MissingConfig \subseteq ConfigErrorNames
            /\ messages = <<>>
            /\ lastOp = NoOp("none")
            /\ browser = "none"
            /\ sent = None)
    /\ [][MissingConfig # {} => file' = file]_vars

\* C14 witness: the run has ended with the configuration error because the
\* password is the empty string
EndedOnEmptyPassword ==
    /\ pc = "exited"
    /\ outcome = "config_error"
    /\ MissingConfig = {"DISCORD_PASSWORD"}
    /\ env["DISCORD_PASSWORD"] = ""

\* C15: a run that ended by the quit choice exited with status 0, without
\* a browser launched and without a message sent.
QuitExitsCleanly ==
    (pc = "exited" /\ outcome = "quit") =>
       /\ ExitStatus = 0
       /\ browser = "none"
       /\ sent = None

\* the content of the send that sequential delivery completes last before
\* it begins the send of message i
SentBefore(i) == IF i = 1 THEN None ELSE messages[i - 1].content

FullWaitBeforeEverySend ==
    /\ [][\A i \in DOMAIN tstate' :
            (tstate'[i] = "sleep" /\ (i \in Tasks => tstate[i] # "sleep")) =>
               rem'[i] = TicksOf(messages'[i].delay_seconds)]_vars
    /\ [][\A i \in Tasks \cap DOMAIN tstate' :
            (tstate[i] = "sleep" /\ tstate'[i] = "sleep") =>
               /\ rem'[i] \in {rem[i], rem[i] - 1}
               /\ rem'[i] >= 0]_vars
    /\ [][\A i \in Tasks \cap DOMAIN tstate' :
            (tstate'[i] = "fill" /\ tstate[i] # "fill") =>
               tstate[i] = "sleep" /\ rem[i] = 0]_vars

\* C17 witness: the task of a message with a delay of two clock ticks or
\* more has printed "Sent:" and, its wait over, has begun its next send
SentAgainAfterFullWait ==
    \E i \in Tasks :
       /\ ScheduleValid
       /\ TicksOf(messages[i].delay_seconds) >= 2
       /\ tstate[i] = "fill"
       /\ rem[i] = 0
       /\ sent = messages[i].content
       /\ \A j \in Tasks \ {i} : messages[j].content # messages[i].content

\* a task has failed, an interrupt has arrived, or main is not awaiting the
\* tasks of send_messages
Stopped == Failed # {} \/ signals # <<>> \/ pc # "gather"

DeliveringValid(i) == pc = "gather" /\ ScheduleValid /\ i \in Tasks

\* C18: delivering a valid schedule, unless a task fails or an interrupt
\* arrives, every task comes to the Enter of a send again and again and
\* every Enter is followed by the "Sent:" line of its message and the
\* task's next wait; and send_messages ends only after a failure or an
\* interrupt.
EveryTimerKeepsSending ==
    /\ \A i \in TaskIds :
          /\ (DeliveringValid(i) /\ tstate[i] # "press") ~>
                (Stopped \/ (i \in Tasks /\ tstate[i] = "press"))
          /\ (DeliveringValid(i) /\ tstate[i] = "press") ~>
                (Stopped \/ (/\ i \in Tasks
                             /\ tstate[i] = "sleep"
                             /\ sent = messages[i].content))
    /\ [][(pc = "gather" /\ (pc' # "gather" \/ sendResult' # "none")) =>
            (Failed # {} \/ signals # <<>>)]_vars

\* C18 witness: in the undisturbed delivery of a valid schedule of three
\* messages the task of the last one, with the longest delay, has sent and
\* begun its next send
LastTimerSentTwice ==
    /\ pc = "gather"
    /\ ScheduleValid
    /\ ~Stopped
    /\ Len(messages) = 3
    /\ tstate[3] = "fill"
    /\ sent = messages[3].content
    /\ \A j \in {1, 2} : messages[j].content # messages[3].content

\* C19: the submit button is clicked only in the step that follows a
\* timeout of the first wait_for_textbox, once in a run; the first wait
\* ends with the navigation to the channel (textbox found) or with the
\* wait for the login fields (timeout), which ends with the submit and the
\* navigation to the channel; the navigation is followed by the second
\* wait_for_textbox, which is reached in no other way; each of these steps
\* can instead end the handshake with an exception.
LoginOnlyAfterFirstProbeTimeout ==
    /\ [](submits <= 1)
    /\ [][submits' # submits =>
            /\ pc = "fields"
            /\ submits' = submits + 1
            /\ pc' = "goto_channel"]_vars
    /\ [][(pc' = "fields" /\ pc # "fields") => pc = "probe1"]_vars
    /\ [][(pc = "probe1" /\ pc' # "probe1") =>
            /\ submits' = submits
            /\ pc' \in {"goto_channel", "fields"} \/ RaisedInTry']_vars
    /\ [][(pc = "fields" /\ pc' # "fields") =>
            \/ pc' = "goto_channel" /\ submits' = submits + 1
            \/ RaisedInTry' /\ submits' = submits]_vars
    /\ [][(pc = "goto_channel" /\ pc' # "goto_channel") =>
            pc' = "probe2" \/ RaisedInTry']_vars
    /\ [][(pc' = "probe2" /\ pc # "probe2") => pc = "goto_channel"]_vars

\* C19 witness: the channel is being probed again after a login
ReprobedAfterLogin ==
    /\ pc = "probe2"
    /\ submits = 1
    /\ signals = <<>>

\* a step of the menu that handled the edit or the delete choice
EditOrDeleteDone == pc = "menu" /\ lastOp'.op \in {"edit", "delete"}
                                /\ ops' = ops + 1
EditOrDeleteRefused == pc = "menu" /\ lastOp' # lastOp
                                   /\ lastOp'.op \in {"edit_none", "delete_none"}

\* C20: an edit or a delete that changes the list acts on a 0-based index
\* below the length of the list, which is then not empty; on an empty list
\* both choices leave the list and the file as they are; a delete of index
\* i shortens the list by one, keeps the messages before i where they are
\* and moves each message after i one place down.
EditAndDeleteWithinRange ==
    /\ [][EditOrDeleteDone =>
            /\ messages # <<>>
            /\ lastOp'.index \in 0..(Len(messages) - 1)]_vars
    /\ [][(pc = "menu" /\ messages = <<>> /\ lastOp' # lastOp
              /\ lastOp'.op \in {"edit", "delete", "edit_none", "delete_none"}) =>
            /\ EditOrDeleteRefused
            /\ messages' = <<>>
            /\ file' = file]_vars
    /\ [][EditOrDeleteRefused => messages = <<>>]_vars
    /\ [][(EditOrDeleteDone /\ lastOp'.op = "delete") =>
            LET i == lastOp'.index + 1
            IN /\ Len(messages') = Len(messages) - 1
               /\ \A j \in 1..(i - 1) : messages'[j] = messages[j]
               /\ \A j \in i..(Len(messages) - 1) :
                     messages'[j] = messages[j + 1]]_vars

\* C20 witness: the first of two loaded messages was deleted and the
\* second is now the only one
DeletedFirstOfTwo ==
    /\ lastOp.op = "delete"
    /\ lastOp.index = 0
    /\ messages = << ScheduledMessage(PyStr("hi"), PyFloat(10)) >>

====
